---- MODULE Spec2Model ----
(***************************************************************************)
(* Verification model of geom_simd: Douglas-Peucker simplification         *)
(* (scalar and AVX-512 kernels, runtime dispatch) and the edge             *)
(* intersection kernel (scalar and AVX-512).                               *)
(*                                                                         *)
(* Numbers.  A double is modelled by an exact value: coordinates are       *)
(* integers on a grid whose step is 5e-6, so that the 1e-10 thresholds of  *)
(* the code are EPS = 4 squared grid steps; quotients are exact rationals  *)
(* [k |-> "num", n, d], and the IEEE results of a division by zero are the *)
(* values NaN and Inf.  Rounding is not modelled.                          *)
(***************************************************************************)
EXTENDS Integers, Sequences, FiniteSets, TLC

VARIABLES
    input,          \* the polyline handed to simplify (PolylineSoA)
    tolerance,      \* numerator of the tolerance argument, in 1/TolDen grid steps
    algorithm,      \* the SimplifyAlgorithm argument
    env,            \* build flags (HAVE_*) and the CPU's capabilities
    result,         \* the polyline returned by the call, NoResult before / on failure
    error,          \* the exception thrown by the call, NoError if none
    frames,         \* the ranges the recursion of the call visited
    kernel_run,     \* the kernel the call ran ("none" if it ran none)
    prev,           \* the call made before this one (NoCall if none)
    pc,             \* "ready" before a call, "done" after one, "compared" after two
    edge_a,         \* the edge A of the intersection test: <<ax1, ay1, ax2, ay2>>
    b_vertices,     \* the vertices whose consecutive pairs are the edges B
    start_idx,      \* index of the first edge B tested
    simd_results,   \* results[8] filled by edge_intersect_avx512
    scalar_results, \* edge_intersect_scalar for the same 8 edges
    edge_b,         \* the edge B of a single scalar test: <<bx1, by1, bx2, by2>>
    scalar_result,  \* the EdgeIntersection returned by the single scalar test
    guard,          \* the guard of the static in get_simd_capabilities
    static_caps,    \* the storage of that static, "caps" (SIMDCapabilities)
    probes,         \* how many times detect_capabilities has started
    callers,        \* where each thread is in get_simd_capabilities
    returned,       \* the values get_simd_capabilities has returned so far
    vertices,       \* the vertices of the polygon (PolylineSoA)
    before,         \* the vertices before the last polygon operation
    op,             \* the last polygon operation ("none" if none)
    oob,            \* TRUE once an operation has read a vertex index >= size()
    stack,          \* the ranges the recursion has still to visit, innermost first
    keep_marks      \* the marks of the recursion under way, "keep" (vector<bool>)

simplify_vars == <<input, tolerance, algorithm, env, result, error, frames, kernel_run,
                   prev, stack, keep_marks>>
edge_vars == <<edge_a, b_vertices, start_idx, simd_results, scalar_results,
               edge_b, scalar_result>>
cache_vars == <<guard, static_caps, probes, callers, returned>>
polygon_vars == <<vertices, before, op, oob>>
vars == <<simplify_vars, edge_vars, cache_vars, polygon_vars, pc>>

(***************************** bounds **************************************)
MaxLen == 4
MaxTolNum == 3
TolDen == 2
WideExtra == 1
MaxStart == 1
MaxThreads == 2
MaxVertices == 5
MaxDepth == 12

(************************* program constants *******************************)
EPS == 4
BatchWidth == 8

(******************************* numbers ***********************************)
Abs(a) == IF a < 0 THEN -a ELSE a

RECURSIVE GCD(_, _)
GCD(a, b) == IF b = 0 THEN a ELSE GCD(b, a % b)

NaN == [k |-> "nan", n |-> 0, d |-> 1]
Inf == [k |-> "inf", n |-> 1, d |-> 1]
NegInf == [k |-> "inf", n |-> -1, d |-> 1]

\* the rational n/d (d # 0) in lowest terms with a positive denominator
Rat(n, d) ==
    LET g == GCD(Abs(n), Abs(d))
        s == IF d < 0 THEN -1 ELSE 1
    IN  [k |-> "num", n |-> (s * n) \div g, d |-> (s * d) \div g]

Num(n) == [k |-> "num", n |-> n, d |-> 1]

\* IEEE division of two finite values given as integers
FDiv(n, d) ==
    IF d # 0 THEN Rat(n, d)
    ELSE IF n = 0 THEN NaN
    ELSE IF n > 0 THEN Inf ELSE NegInf

\* a > b on doubles: false as soon as one side is NaN
FGt(a, b) ==
    IF a.k = "nan" \/ b.k = "nan" THEN FALSE
    ELSE IF a.k = "inf" THEN a.n > 0 /\ ~(b.k = "inf" /\ b.n > 0)
    ELSE IF b.k = "inf" THEN b.n < 0
    ELSE a.n * b.d > b.n * a.d

FGe(a, b) ==
    IF a.k = "nan" \/ b.k = "nan" THEN FALSE
    ELSE ~FGt(b, a)

FLe(a, b) == FGe(b, a)

\* a + t * m on doubles, for integers a and m
FMulAdd(t, m, a) ==
    IF t.k = "num" THEN Rat(t.n * m + a * t.d, t.d)
    ELSE IF t.k = "nan" \/ m = 0 THEN NaN
    ELSE IF (t.n > 0) = (m > 0) THEN Inf ELSE NegInf

(****************************** data model *********************************)
PolylineSoA(pts) ==
    [x |-> [i \in 1..Len(pts) |-> pts[i][1]],
     y |-> [i \in 1..Len(pts) |-> pts[i][2]]]

size(p) == Len(p.x)

\* operator[] with the 0-based index of the source
At(p, i) == [x |-> p.x[i + 1], y |-> p.y[i + 1]]

\* variant: the point is appended to x only
push_back_x_only(p, px, py) == [x |-> Append(p.x, px), y |-> p.y]

push_back(p, px, py) == [x |-> Append(p.x, px), y |-> Append(p.y, py)]

EmptyPolyline == [x |-> <<>>, y |-> <<>>]

(*************************** distance kernel *******************************)
\* simplify_internal.h: squared distance of (px, py) from the chord
\* (x1, y1)-(x2, y2)
perpendicular_distance(px, py, x1, y1, x2, y2) ==
    LET dx == x2 - x1
        dy == y2 - y1
        mag_sq == dx * dx + dy * dy
    IN  IF mag_sq < EPS
        THEN LET dpx == px - x1
                 dpy == py - y1
             IN  Num(dpx * dpx + dpy * dpy)
        ELSE LET cross == (px - x1) * dy - (py - y1) * dx
             IN  FDiv(cross * cross, mag_sq)

\* whether perpendicular_distance reaches its division for this chord
scalar_divides(x1, y1, x2, y2) ==
    LET dx == x2 - x1
        dy == y2 - y1
    IN  ~(dx * dx + dy * dy < EPS)

\* one evaluation of a candidate point, as recorded in a frame:
\* the index, the distance the kernel used, whether it divided by the chord's
\* squared length, and which loop evaluated it
Eval(i, dist, divided, unit) ==
    [i |-> i, dist |-> dist, divided |-> divided, unit |-> unit]

\* variant: the maximum is updated without its index
update_max_keeps_index(acc, dist_sq, i) ==
    IF FGt(dist_sq, acc.max_dist_sq)
    THEN [acc EXCEPT !.max_dist_sq = dist_sq]
    ELSE acc

\* "if (dist_sq > max_dist_sq) { max_dist_sq = dist_sq; max_idx = i; }"
update_max(acc, dist_sq, i) ==
    IF FGt(dist_sq, acc.max_dist_sq)
    THEN [acc EXCEPT !.max_dist_sq = dist_sq, !.max_idx = i]
    ELSE acc

\* one iteration of a search loop: the comparison, and the record of it
visit(acc, i, dist_sq, divided, unit) ==
    [update_max(acc, dist_sq, i) EXCEPT !.evals = Append(@, Eval(i, dist_sq, divided, unit))]

\* "perpendicular_distance(points[i].x, points[i].y, p_start.x, p_start.y,
\*  p_end.x, p_end.y)" with p_start = points[start], p_end = points[end]
chord_distance(points, start, end, i) ==
    perpendicular_distance(At(points, i).x, At(points, i).y,
                           At(points, start).x, At(points, start).y,
                           At(points, end).x, At(points, end).y)

chord_divides(points, start, end) ==
    scalar_divides(At(points, start).x, At(points, start).y,
                   At(points, end).x, At(points, end).y)

\* the scalar loop "for (; i < end; ++i)" over the candidates of [start, end]
RECURSIVE scalar_loop(_, _, _, _, _)
scalar_loop(points, start, end, i, acc) ==
    IF ~(i < end) THEN acc
    ELSE scalar_loop(points, start, end, i + 1,
                     visit(acc, i, chord_distance(points, start, end, i),
                           chord_divides(points, start, end), "scalar"))

\* the state of a search before its loops run
scan_init(start) ==
    [max_dist_sq |-> Num(0), max_idx |-> start, evals |-> <<>>,
     max_vec |-> [j \in 0..(BatchWidth - 1) |-> Num(0)], i |-> start + 1]

\* a visited range, as recorded for the call
Frame(start, end, scan, split) ==
    [start |-> start, end |-> end, max_idx |-> scan.max_idx,
     max_dist_sq |-> scan.max_dist_sq, split |-> split, evals |-> scan.evals]

\* variant: a range with a single candidate is not searched
range_is_trivial_one_early(start, end) == end <= start + 2

\* "if (end <= start + 1) return;"
range_is_trivial(start, end) == end <= start + 1

\* variant: a point at the tolerance exactly is kept
exceeds_tolerance_or_equal(max_dist_sq, tolerance_sq) == FGe(max_dist_sq, tolerance_sq)

\* variant: the test is inverted, points nearer than the tolerance are kept
exceeds_tolerance_inverted(max_dist_sq, tolerance_sq) ==
    FGt(max_dist_sq, Num(0)) /\ FGt(tolerance_sq, max_dist_sq)

\* "if (max_dist_sq > tolerance_sq)"
exceeds_tolerance(max_dist_sq, tolerance_sq) == FGt(max_dist_sq, tolerance_sq)

\* "keep[max_idx] = true", and the record of the split range
mark(st, max_idx, frame) ==
    [keep |-> [st.keep EXCEPT ![max_idx] = TRUE], frames |-> st.frames \cup {frame}]

\* the record of a range that is not split
note(st, frame) == [st EXCEPT !.frames = @ \cup {frame}]

(*************************** scalar engine *********************************)
\* simplify_scalar.cpp: st = [keep, frames] is threaded through the recursion;
\* dpr_decide is the part of the function that follows the search loop
RECURSIVE douglas_peucker_recursive(_, _, _, _, _)
RECURSIVE dpr_decide(_, _, _, _, _, _)
dpr_decide(points, start, end, tolerance_sq, st, scan) ==
    IF exceeds_tolerance(scan.max_dist_sq, tolerance_sq)
    THEN douglas_peucker_recursive(points, scan.max_idx, end, tolerance_sq,
             douglas_peucker_recursive(points, start, scan.max_idx, tolerance_sq,
                 mark(st, scan.max_idx, Frame(start, end, scan, TRUE))))
    ELSE note(st, Frame(start, end, scan, FALSE))

douglas_peucker_recursive(points, start, end, tolerance_sq, st) ==
    IF range_is_trivial(start, end) THEN st
    ELSE dpr_decide(points, start, end, tolerance_sq, st,
                    scalar_loop(points, start, end, start + 1, scan_init(start)))

\* "double tolerance_sq = tolerance * tolerance"
square_tolerance(tol) == Rat(tol * tol, TolDen * TolDen)

\* variant: the last point is not marked
keep_init_without_last(n) == [i \in 0..(n - 1) |-> i = 0]

\* variant: no point is marked before the recursion
keep_init_all_false(n) == [i \in 0..(n - 1) |-> FALSE]

\* "keep(input.size(), false); keep[0] = true; keep[input.size() - 1] = true"
keep_init(n) == [i \in 0..(n - 1) |-> i = 0 \/ i = n - 1]

\* variant: kept points are inserted at the front of the result
RECURSIVE build_result_front(_, _, _, _)
build_result_front(points, keep, i, res) ==
    IF ~(i < size(points)) THEN res
    ELSE build_result_front(points, keep, i + 1,
             IF keep[i]
             THEN [x |-> <<At(points, i).x>> \o res.x, y |-> <<At(points, i).y>> \o res.y]
             ELSE res)

\* "for (i = 0; i < input.size(); ++i) if (keep[i]) result.push_back(...)"
RECURSIVE build_result(_, _, _, _)
build_result(points, keep, i, res) ==
    IF ~(i < size(points)) THEN res
    ELSE build_result(points, keep, i + 1,
                      IF keep[i]
                      THEN push_back(res, At(points, i).x, At(points, i).y)
                      ELSE res)

\* the polyline a kernel returns, with the record of its recursion
kernel_return(points, st) ==
    [result |-> build_result(points, st.keep, 0, EmptyPolyline), frames |-> st.frames]

kernel_start(points) == [keep |-> keep_init(size(points)), frames |-> {}]

simplify_scalar(points, tol) ==
    IF size(points) <= 2 THEN [result |-> points, frames |-> {}]
    ELSE kernel_return(points,
             douglas_peucker_recursive(points, 0, size(points) - 1,
                                       square_tolerance(tol), kernel_start(points)))

(*************************** AVX-512 engine ********************************)
\* one lane of the batch: "dist_sq = (cross * cross) / mag_sq" with the
\* broadcast chord; no test of mag_sq precedes the division
lane_distance(px, py, x1, y1, x2, y2) ==
    LET dx == x2 - x1
        dy == y2 - y1
        mag_sq == dx * dx + dy * dy
        dpx == px - x1
        dpy == py - y1
        cross == dpx * dy - dpy * dx
    IN  FDiv(cross * cross, mag_sq)

\* "_mm512_loadu_pd(&points.x[i]), _mm512_loadu_pd(&points.y[i])" and the
\* 8 distances computed from them
batch_distances(points, start, end, i) ==
    [j \in 0..(BatchWidth - 1) |->
        lane_distance(points.x[i + j + 1], points.y[i + j + 1],
                      At(points, start).x, At(points, start).y,
                      At(points, end).x, At(points, end).y)]

\* "gt_mask = cmp(dist_sq, max_vec, GT); max_vec = blend(gt_mask, max_vec, dist_sq)"
blend_max(max_vec, dists) ==
    [j \in 0..(BatchWidth - 1) |->
        IF FGt(dists[j], max_vec[j]) THEN dists[j] ELSE max_vec[j]]

\* "for (j = 0; j < 8; ++j) if (dists[j] > max_dist_sq) { ...; max_idx = i + j; }"
RECURSIVE lane_loop(_, _, _, _)
lane_loop(dists, i, j, acc) ==
    IF ~(j < BatchWidth) THEN acc
    ELSE lane_loop(dists, i, j + 1, visit(acc, i + j, dists[j], TRUE, "vector"))

\* the body of the hot loop for the batch that starts at acc.i, and "i += 8"
batch_step(acc, dists) ==
    [lane_loop(dists, acc.i, 0, [acc EXCEPT !.max_vec = blend_max(@, dists)])
        EXCEPT !.i = @ + BatchWidth]

\* variant: the last lane of a batch may be the end of the chord
batch_fits_to_end(i, end) == i + (BatchWidth - 1) <= end

\* "i + 7 < end": the 8 indices from i on are interior indices
batch_fits(i, end) == i + (BatchWidth - 1) < end

\* the hot loop "for (; i + 7 < end; i += 8)"
RECURSIVE vector_loop(_, _, _, _)
vector_loop(points, start, end, acc) ==
    IF ~batch_fits(acc.i, end) THEN acc
    ELSE vector_loop(points, start, end,
                     batch_step(acc, batch_distances(points, start, end, acc.i)))

fmax(a, b) == IF FGt(a, b) THEN a ELSE b

\* _mm512_reduce_max_pd
RECURSIVE reduce_max(_, _)
reduce_max(vec, j) ==
    IF j = BatchWidth - 1 THEN vec[j]
    ELSE fmax(reduce_max(vec, j + 1), vec[j])

\* "max_dist_sq = _mm512_reduce_max_pd(max_vec)"
reduce_step(acc) == [acc EXCEPT !.max_dist_sq = reduce_max(acc.max_vec, 0)]

\* "for (; i < end; ++i)" after the hot loop: the remainder, from acc.i on
remainder_loop(points, start, end, acc) == scalar_loop(points, start, end, acc.i, acc)

\* the search of rdpr_avx512: hot loop, horizontal reduction, scalar remainder
avx512_scan(points, start, end) ==
    remainder_loop(points, start, end,
        reduce_step(vector_loop(points, start, end, scan_init(start))))

RECURSIVE rdpr_avx512(_, _, _, _, _)
RECURSIVE rdpr_decide(_, _, _, _, _, _)
rdpr_decide(points, start, end, tolerance_sq, st, scan) ==
    IF exceeds_tolerance(scan.max_dist_sq, tolerance_sq)
    THEN rdpr_avx512(points, scan.max_idx, end, tolerance_sq,
             rdpr_avx512(points, start, scan.max_idx, tolerance_sq,
                 mark(st, scan.max_idx, Frame(start, end, scan, TRUE))))
    ELSE note(st, Frame(start, end, scan, FALSE))

rdpr_avx512(points, start, end, tolerance_sq, st) ==
    IF range_is_trivial(start, end) THEN st
    ELSE rdpr_decide(points, start, end, tolerance_sq, st,
                     avx512_scan(points, start, end))

simplify_avx512(points, tol) ==
    IF size(points) <= 2 THEN [result |-> points, frames |-> {}]
    ELSE kernel_return(points,
             rdpr_avx512(points, 0, size(points) - 1,
                         square_tolerance(tol), kernel_start(points)))

\* simplify_avx2 and simplify_neon: "return simplify_scalar(input, tolerance)"
simplify_avx2(points, tol) == simplify_scalar(points, tol)

simplify_neon(points, tol) == simplify_scalar(points, tol)

(****************************** dispatch ***********************************)
Algorithms == {"AUTO", "SCALAR", "AVX2", "AVX512", "NEON"}

\* the builds and machines considered: the macros the build defines, the
\* architecture, and the CPUID.7.0.EBX bits 5 (AVX2) and 16 (AVX512F)
Envs ==
    { [arch |-> "x86_64", avx2_bit |-> TRUE, avx512f_bit |-> TRUE,
       HAVE_AVX2 |-> TRUE, HAVE_AVX512 |-> TRUE, HAVE_NEON |-> FALSE],
      [arch |-> "x86_64", avx2_bit |-> TRUE, avx512f_bit |-> FALSE,
       HAVE_AVX2 |-> TRUE, HAVE_AVX512 |-> TRUE, HAVE_NEON |-> FALSE],
      [arch |-> "aarch64", avx2_bit |-> FALSE, avx512f_bit |-> FALSE,
       HAVE_AVX2 |-> FALSE, HAVE_AVX512 |-> FALSE, HAVE_NEON |-> TRUE] }

detect_capabilities(e) ==
    [avx2_available |-> e.arch = "x86_64" /\ e.avx2_bit,
     avx512_available |-> e.arch = "x86_64" /\ e.avx512f_bit,
     neon_available |-> e.arch = "aarch64"]

\* the function-local static is initialised by detect_capabilities
get_simd_capabilities(e) == detect_capabilities(e)

\* records, so that they compare with polylines and exceptions
NoResult == [none |-> "result"]
NoError == [type |-> "none", what |-> ""]

Exception(type, what) == [type |-> type, what |-> what]

\* the outcome of the dispatch: the kernel to run, or the exception thrown
Run(kernel) == [kernel |-> kernel, error |-> NoError]
Throw(type, what) == [kernel |-> "none", error |-> Exception(type, what)]

\* variant: AVX2 is tried before AVX-512
select_auto_avx2_first(e, caps) ==
    IF e.HAVE_AVX2 /\ caps.avx2_available THEN Run("avx2")
    ELSE IF e.HAVE_AVX512 /\ caps.avx512_available THEN Run("avx512")
    ELSE IF e.HAVE_NEON /\ caps.neon_available THEN Run("neon")
    ELSE Run("scalar")

\* "if (algorithm == SimplifyAlgorithm::AUTO) { ... }"
select_auto(e, caps) ==
    IF e.HAVE_AVX512 /\ caps.avx512_available THEN Run("avx512")
    ELSE IF e.HAVE_AVX2 /\ caps.avx2_available THEN Run("avx2")
    ELSE IF e.HAVE_NEON /\ caps.neon_available THEN Run("neon")
    ELSE Run("scalar")

\* "switch (algorithm) { ... }": a case exists only if its macro is defined
select_explicit(alg, e, caps) ==
    IF alg = "SCALAR" THEN Run("scalar")
    ELSE IF alg = "AVX2" /\ e.HAVE_AVX2
    THEN IF ~caps.avx2_available
         THEN Throw("std::runtime_error", "AVX2 not available on this CPU")
         ELSE Run("avx2")
    ELSE IF alg = "AVX512" /\ e.HAVE_AVX512
    THEN IF ~caps.avx512_available
         THEN Throw("std::runtime_error", "AVX-512 not available on this CPU")
         ELSE Run("avx512")
    ELSE IF alg = "NEON" /\ e.HAVE_NEON
    THEN IF ~caps.neon_available
         THEN Throw("std::runtime_error", "NEON not available on this CPU")
         ELSE Run("neon")
    ELSE Throw("std::runtime_error", "Requested SIMD implementation not compiled")

select_kernel(alg, e) ==
    IF alg = "AUTO" THEN select_auto(e, get_simd_capabilities(e))
    ELSE select_explicit(alg, e, get_simd_capabilities(e))

\* "return internal::simplify_<kernel>(input, tolerance)"
run_kernel(kernel, points, tol) ==
    IF kernel = "avx512" THEN simplify_avx512(points, tol)
    ELSE IF kernel = "avx2" THEN simplify_avx2(points, tol)
    ELSE IF kernel = "neon" THEN simplify_neon(points, tol)
    ELSE simplify_scalar(points, tol)

Returned(r, k) ==
    [result |-> r.result, error |-> NoError, frames |-> r.frames, kernel |-> k]

Thrown(err) == [result |-> NoResult, error |-> err, frames |-> {}, kernel |-> "none"]

dispatch(sel, points, tol) ==
    IF sel.error # NoError THEN Thrown(sel.error)
    ELSE Returned(run_kernel(sel.kernel, points, tol), sel.kernel)

\* variant: the early exit takes 0 and 1 points only
simplify_exit_below_two(points, tol, alg, e) ==
    IF size(points) <= 1
    THEN Returned([result |-> points, frames |-> {}], "none")
    ELSE IF tol <= 0
    THEN Thrown(Exception("std::invalid_argument", "Tolerance must be positive"))
    ELSE dispatch(select_kernel(alg, e), points, tol)

simplify(points, tol, alg, e) ==
    IF size(points) <= 2
    THEN Returned([result |-> points, frames |-> {}], "none")
    ELSE IF tol <= 0
    THEN Thrown(Exception("std::invalid_argument", "Tolerance must be positive"))
    ELSE dispatch(select_kernel(alg, e), points, tol)

(************************ inputs of the simplification *********************)
\* the points of the short polylines: a 3 x 2 block of the grid
Grid == (0..2) \X (0..1)

Polylines(pts, lens) ==
    { PolylineSoA(s) : s \in UNION { [1..n -> pts] : n \in lens } }

Tolerances == (-1)..MaxTolNum

\* clip.h: struct EdgeIntersection; the default constructor gives
\* (false, 0, 0, 0, 0)
EdgeIntersection(intersects, t, u, x, y) ==
    [intersects |-> intersects, t |-> t, u |-> u, x |-> x, y |-> y]

NoIntersection == EdgeIntersection(FALSE, Num(0), Num(0), Num(0), Num(0))

(************************ edge intersection kernels ************************)
\* variant: the bounds 0 and 1 are excluded
in_unit_range_open(v) == FGt(v, Num(0)) /\ FGt(Num(1), v)

\* intersect_scalar.cpp: "if (t >= 0.0 && t <= 1.0 && u >= 0.0 && u <= 1.0)"
in_unit_range(v) == FGe(v, Num(0)) /\ FLe(v, Num(1))

\* variant: the point is taken at parameter u of edge A
intersection_at_u(t, u, ax1, ay1, dx_a, dy_a) ==
    EdgeIntersection(TRUE, t, u, FMulAdd(u, dx_a, ax1), FMulAdd(u, dy_a, ay1))

\* the point "ax1 + t * dx_a, ay1 + t * dy_a" and the result built from it
intersection_at(t, u, ax1, ay1, dx_a, dy_a) ==
    EdgeIntersection(TRUE, t, u, FMulAdd(t, dx_a, ax1), FMulAdd(t, dy_a, ay1))

\* "denominator = dx_a * dy_b - dy_a * dx_b" and the two numerators
cross(ux, uy, vx, vy) == ux * vy - uy * vx

\* variant: only the parameter on the first segment is tested
scalar_solve_t_only(t, u, ax1, ay1, dx_a, dy_a) ==
    IF in_unit_range(t)
    THEN intersection_at(t, u, ax1, ay1, dx_a, dy_a)
    ELSE NoIntersection

\* intersect_scalar.cpp: the part after the parallel test
scalar_solve(t, u, ax1, ay1, dx_a, dy_a) ==
    IF in_unit_range(t) /\ in_unit_range(u)
    THEN intersection_at(t, u, ax1, ay1, dx_a, dy_a)
    ELSE NoIntersection

edge_intersect_scalar(ax1, ay1, ax2, ay2, bx1, by1, bx2, by2) ==
    LET dx_a == ax2 - ax1
        dy_a == ay2 - ay1
        dx_b == bx2 - bx1
        dy_b == by2 - by1
        denominator == cross(dx_a, dy_a, dx_b, dy_b)
        dx_ab == bx1 - ax1
        dy_ab == by1 - ay1
    IN  IF Abs(denominator) < EPS THEN NoIntersection
        ELSE scalar_solve(FDiv(cross(dx_ab, dy_ab, dx_b, dy_b), denominator),
                          FDiv(cross(dx_ab, dy_ab, dx_a, dy_a), denominator),
                          ax1, ay1, dx_a, dy_a)

\* part_005: "intersects = t_valid & u_valid & not_parallel" and the store of
\* one lane
lane_result(t, u, abs_denom, ax1, ay1, dx_a, dy_a) ==
    IF in_unit_range(t) /\ in_unit_range(u) /\ abs_denom > EPS
    THEN intersection_at(t, u, ax1, ay1, dx_a, dy_a)
    ELSE NoIntersection

\* one lane of edge_intersect_avx512: t and u are divided before the
\* denominator is tested
avx512_lane(ax1, ay1, ax2, ay2, bx1, by1, bx2, by2) ==
    LET dx_a == ax2 - ax1
        dy_a == ay2 - ay1
        dx_b == bx2 - bx1
        dy_b == by2 - by1
        denominator == cross(dx_a, dy_a, dx_b, dy_b)
        dx_ab == bx1 - ax1
        dy_ab == by1 - ay1
    IN  lane_result(FDiv(cross(dx_ab, dy_ab, dx_b, dy_b), denominator),
                    FDiv(cross(dx_ab, dy_ab, dx_a, dy_a), denominator),
                    Abs(denominator), ax1, ay1, dx_a, dy_a)

\* lane i takes the edge (b_vertices[start_idx + i], b_vertices[start_idx + i + 1])
edge_intersect_avx512(ax1, ay1, ax2, ay2, b, start) ==
    [i \in 0..(BatchWidth - 1) |->
        avx512_lane(ax1, ay1, ax2, ay2,
                    At(b, start + i).x, At(b, start + i).y,
                    At(b, start + i + 1).x, At(b, start + i + 1).y)]

NoCall == [none |-> "call"]

\* the arguments and the outcome of the call the variables describe
ThisCall ==
    [input |-> input, tolerance |-> tolerance, algorithm |-> algorithm,
     result |-> result, error |-> error, frames |-> frames, kernel |-> kernel_run]

\* no intersection test is under way
EdgeIdle ==
    /\ edge_a = <<0, 0, 0, 0>>
    /\ b_vertices = EmptyPolyline
    /\ start_idx = 0
    /\ simd_results = [i \in 0..(BatchWidth - 1) |-> NoIntersection]
    /\ scalar_results = [i \in 0..(BatchWidth - 1) |-> NoIntersection]
    /\ edge_b = <<0, 0, 0, 0>>
    /\ scalar_result = NoIntersection

\* "SIMDCapabilities caps{false, false, false}"; also the zero-initialised
\* storage of the static before its initialisation
NoCapabilities ==
    [avx2_available |-> FALSE, avx512_available |-> FALSE, neon_available |-> FALSE]

Threads == 1..MaxThreads

\* get_simd_capabilities has not been called
CacheIdle ==
    /\ guard = "uninit"
    /\ static_caps = NoCapabilities
    /\ probes = 0
    /\ callers = [t \in Threads |-> "idle"]
    /\ returned = {}

\* no polygon is under test
PolygonIdle ==
    /\ vertices = EmptyPolyline
    /\ before = EmptyPolyline
    /\ op = "none"
    /\ oob = FALSE

\* no simplification is under way
SimplifyIdle ==
    /\ input = EmptyPolyline
    /\ tolerance = 0
    /\ algorithm = "AUTO"
    /\ result = NoResult
    /\ error = NoError
    /\ frames = {}
    /\ stack = <<>>
    /\ keep_marks = <<>>
    /\ kernel_run = "none"
    /\ prev = NoCall

\* the variables after a call with outcome r
Outcome(points, tol, alg, r) ==
    /\ input' = points
    /\ tolerance' = tol
    /\ algorithm' = alg
    /\ result' = r.result
    /\ error' = r.error
    /\ frames' = r.frames
    /\ UNCHANGED <<stack, keep_marks>>
    /\ kernel_run' = r.kernel

\* the caller's call simplify(points, tol, alg)
Call(points, tol, alg) == Outcome(points, tol, alg, simplify(points, tol, alg, env))

(**************** Spec: one call of simplify on a short polyline ***********)
Init ==
    /\ input \in Polylines(Grid, 0..MaxLen)
    /\ env \in Envs
    /\ tolerance = 0
    /\ algorithm = "AUTO"
    /\ result = NoResult
    /\ error = NoError
    /\ frames = {}
    /\ stack = <<>>
    /\ keep_marks = <<>>
    /\ kernel_run = "none"
    /\ prev = NoCall
    /\ pc = "ready"
    /\ EdgeIdle
    /\ CacheIdle
    /\ PolygonIdle

Simplify(tol, alg) ==
    /\ pc = "ready"
    /\ Call(input, tol, alg)
    /\ pc' = "done"
    /\ UNCHANGED <<env, prev, edge_vars, cache_vars, polygon_vars>>

Next == \E tol \in Tolerances, alg \in Algorithms : Simplify(tol, alg)

Spec == Init /\ [][Next]_vars

(******** SpecPair: a call followed by a second call that depends on it ****)
PairAlgorithms == {"AUTO", "SCALAR"}

FirstCall(tol, alg) ==
    /\ pc = "ready"
    /\ tol > 0
    /\ Call(input, tol, alg)
    /\ pc' = "done"
    /\ UNCHANGED <<env, prev, edge_vars, cache_vars, polygon_vars>>

\* simplify(simplify(L, t), t): the returned polyline is simplified again
SimplifyAgain ==
    /\ pc = "done"
    /\ error = NoError
    /\ prev' = ThisCall
    /\ Call(result, tolerance, algorithm)
    /\ pc' = "again"
    /\ UNCHANGED <<env, edge_vars, cache_vars, polygon_vars>>

\* the same polyline is simplified with a larger tolerance
SimplifyLooser(tol) ==
    /\ pc = "done"
    /\ tol > tolerance
    /\ prev' = ThisCall
    /\ Call(input, tol, algorithm)
    /\ pc' = "looser"
    /\ UNCHANGED <<env, edge_vars, cache_vars, polygon_vars>>

NextPair ==
    \/ \E tol \in Tolerances, alg \in PairAlgorithms : FirstCall(tol, alg)
    \/ SimplifyAgain
    \/ \E tol \in Tolerances : SimplifyLooser(tol)

SpecPair == Init /\ [][NextPair]_vars

(**** SpecWide: scalar and vector kernels on polylines of 10 and more points ****)
\* polylines long enough for one and for two batches of the hot loop
WideLens ==
    { BatchWidth + 2 + k : k \in 0..WideExtra } \cup
    { 2 * BatchWidth + 2 + k : k \in 0..WideExtra }

WideHead == <<0, 0>>
WideTails == { <<0, 0>>, <<2, 0>> }
WideBase == <<1, 0>>
WidePeaks == { <<1, 0>>, <<1, 2>> }

\* a polyline of n points that is flat (WideBase) between its end points,
\* except at the interior indices b1 and b2
WidePoints(n, head, tail, b1, p1, b2, p2) ==
    [i \in 1..n |->
        IF i = 1 THEN head
        ELSE IF i = n THEN tail
        ELSE IF i - 1 = b2 THEN p2
        ELSE IF i - 1 = b1 THEN p1
        ELSE WideBase]

WidePolylines ==
    { PolylineSoA(WidePoints(n, WideHead, t, b[1], p1, b[2], p2)) :
        n \in WideLens, t \in WideTails,
        b \in { c \in (1..(2 * BatchWidth + WideExtra)) \X (1..(2 * BatchWidth + WideExtra)) :
                    c[1] < c[2] },
        p1 \in WidePeaks, p2 \in WidePeaks }

WideEnvs == { e \in Envs : get_simd_capabilities(e).avx512_available \/ e.HAVE_NEON }

InitWide ==
    /\ input \in WidePolylines
    /\ env \in WideEnvs
    /\ tolerance = 0
    /\ algorithm = "AUTO"
    /\ result = NoResult
    /\ error = NoError
    /\ frames = {}
    /\ stack = <<>>
    /\ keep_marks = <<>>
    /\ kernel_run = "none"
    /\ prev = NoCall
    /\ pc = "ready"
    /\ EdgeIdle
    /\ CacheIdle
    /\ PolygonIdle

\* "result_scalar = simplify(line, tolerance, SimplifyAlgorithm::SCALAR)"
RunScalar(tol) ==
    /\ pc = "ready"
    /\ tol > 0
    /\ Call(input, tol, "SCALAR")
    /\ pc' = "done"
    /\ UNCHANGED <<env, prev, edge_vars, cache_vars, polygon_vars>>

\* "result_tested = simplify(line, tolerance, algorithm)"
RunTested(alg) ==
    /\ pc = "done"
    /\ prev' = ThisCall
    /\ Call(input, tolerance, alg)
    /\ pc' = "compared"
    /\ UNCHANGED <<env, edge_vars, cache_vars, polygon_vars>>

NextWide ==
    \/ \E tol \in Tolerances : RunScalar(tol)
    \/ \E alg \in {"AVX2", "AVX512", "NEON"} : RunTested(alg)

SpecWide == InitWide /\ [][NextWide]_vars

(******** SpecSpan: one call on polylines that double back *****************)
\* points far enough apart for a point to lie beyond the end of a chord that
\* is not degenerate
SpanPoints == {0, 2, 6} \X {0, 1}

InitSpan ==
    /\ input \in Polylines(SpanPoints, 3..4)
    /\ env \in Envs
    /\ tolerance = 0
    /\ algorithm = "AUTO"
    /\ result = NoResult
    /\ error = NoError
    /\ frames = {}
    /\ stack = <<>>
    /\ keep_marks = <<>>
    /\ kernel_run = "none"
    /\ prev = NoCall
    /\ pc = "ready"
    /\ EdgeIdle
    /\ CacheIdle
    /\ PolygonIdle

\* "simplify(line, tolerance)" and "simplify(line, tolerance, SCALAR)"
SimplifySpan(tol, alg) ==
    /\ pc = "ready"
    /\ tol > 0
    /\ Call(input, tol, alg)
    /\ pc' = "done"
    /\ UNCHANGED <<env, prev, edge_vars, cache_vars, polygon_vars>>

NextSpan == \E tol \in Tolerances, alg \in PairAlgorithms : SimplifySpan(tol, alg)

SpecSpan == InitSpan /\ [][NextSpan]_vars

(******** SpecDispatch: requests on every build and machine ****************)
\* an x86-64 build may define HAVE_AVX2 and HAVE_AVX512 and runs on a CPU
\* with or without the two CPUID bits; an AArch64 build may define HAVE_NEON
DispatchEnvs ==
    { [arch |-> "x86_64", avx2_bit |-> b2, avx512f_bit |-> b5,
       HAVE_AVX2 |-> h2, HAVE_AVX512 |-> h5, HAVE_NEON |-> FALSE] :
         b2 \in BOOLEAN, b5 \in BOOLEAN, h2 \in BOOLEAN, h5 \in BOOLEAN } \cup
    { [arch |-> "aarch64", avx2_bit |-> FALSE, avx512f_bit |-> FALSE,
       HAVE_AVX2 |-> FALSE, HAVE_AVX512 |-> FALSE, HAVE_NEON |-> hn] :
         hn \in BOOLEAN }

DispatchPoints == { <<0, 0>>, <<1, 1>>, <<2, 0>> }

InitDispatch ==
    /\ input \in Polylines(DispatchPoints, 0..3)
    /\ env \in DispatchEnvs
    /\ tolerance = 0
    /\ algorithm = "AUTO"
    /\ result = NoResult
    /\ error = NoError
    /\ frames = {}
    /\ stack = <<>>
    /\ keep_marks = <<>>
    /\ kernel_run = "none"
    /\ prev = NoCall
    /\ pc = "ready"
    /\ EdgeIdle
    /\ CacheIdle
    /\ PolygonIdle

\* "simplify(input, tolerance, algorithm)" with a valid tolerance
Request(tol, alg) ==
    /\ pc = "ready"
    /\ tol > 0
    /\ Call(input, tol, alg)
    /\ pc' = "done"
    /\ UNCHANGED <<env, prev, edge_vars, cache_vars, polygon_vars>>

\* the same request with another algorithm tag
RequestOther(alg) ==
    /\ pc = "done"
    /\ alg # algorithm
    /\ prev' = ThisCall
    /\ Call(input, tolerance, alg)
    /\ pc' = "second"
    /\ UNCHANGED <<env, edge_vars, cache_vars, polygon_vars>>

NextDispatch ==
    \/ \E tol \in Tolerances, alg \in Algorithms : Request(tol, alg)
    \/ \E alg \in Algorithms : RequestOther(alg)

SpecDispatch == InitDispatch /\ [][NextDispatch]_vars

(***** SpecCache: threads calling get_simd_capabilities concurrently ********)
\* variant: an unguarded flag, the static is not claimed by the thread that
\* starts to initialise it
guard_acquire_unguarded(g) == g

\* "static SIMDCapabilities caps = ...": the first thread to reach the
\* declaration claims the initialisation
guard_acquire(g) == "running"

Move(t, to) == callers' = [callers EXCEPT ![t] = to]

\* a thread reaches "static SIMDCapabilities caps = detect_capabilities();":
\* it initialises the static if nobody has, skips the initialisation if it
\* is complete, and waits while another thread is initialising
Enter(t) ==
    /\ callers[t] = "idle"
    /\ \/ /\ guard = "uninit"
          /\ guard' = guard_acquire(guard)
          /\ Move(t, "detect")
       \/ /\ guard = "done"
          /\ guard' = guard
          /\ Move(t, "return")
    /\ UNCHANGED <<static_caps, probes, returned>>

\* "SIMDCapabilities caps{false, false, false};"
Detect(t) ==
    /\ callers[t] = "detect"
    /\ probes' = probes + 1
    /\ static_caps' = NoCapabilities
    /\ Move(t, "avx2")
    /\ UNCHANGED <<guard, returned>>

\* "caps.avx2_available = (ebx & (1 << 5)) != 0;"
SetAvx2(t) ==
    /\ callers[t] = "avx2"
    /\ static_caps' = [static_caps EXCEPT
                          !.avx2_available = detect_capabilities(env).avx2_available]
    /\ Move(t, "avx512")
    /\ UNCHANGED <<guard, probes, returned>>

\* "caps.avx512_available = (ebx & (1 << 16)) != 0;"
SetAvx512(t) ==
    /\ callers[t] = "avx512"
    /\ static_caps' = [static_caps EXCEPT
                          !.avx512_available = detect_capabilities(env).avx512_available]
    /\ Move(t, "neon")
    /\ UNCHANGED <<guard, probes, returned>>

\* "caps.neon_available = true;" under __aarch64__
SetNeon(t) ==
    /\ callers[t] = "neon"
    /\ static_caps' = [static_caps EXCEPT
                          !.neon_available = detect_capabilities(env).neon_available]
    /\ Move(t, "publish")
    /\ UNCHANGED <<guard, probes, returned>>

\* the initialisation is complete
Publish(t) ==
    /\ callers[t] = "publish"
    /\ guard' = "done"
    /\ Move(t, "return")
    /\ UNCHANGED <<static_caps, probes, returned>>

\* "return caps;"
Return(t) ==
    /\ callers[t] = "return"
    /\ returned' = returned \cup {static_caps}
    /\ Move(t, "idle")
    /\ UNCHANGED <<guard, static_caps, probes>>

InitCache ==
    /\ SimplifyIdle
    /\ env \in DispatchEnvs
    /\ EdgeIdle
    /\ CacheIdle
    /\ PolygonIdle
    /\ pc = "ready"

NextCache ==
    \E t \in Threads :
        /\ \/ Enter(t) \/ Detect(t) \/ SetAvx2(t) \/ SetAvx512(t)
           \/ SetNeon(t) \/ Publish(t) \/ Return(t)
        /\ UNCHANGED <<simplify_vars, edge_vars, polygon_vars, pc>>

SpecCache == InitCache /\ [][NextCache]_vars

(****** SpecEdge: the vector intersection test and the scalar reference *****)
EdgePoints == { <<1, 0>>, <<1, 2>>, <<2, 1>> }

\* n vertices that repeat the three points of p
EdgeVertices(p, n) == PolylineSoA([k \in 1..n |-> p[((k - 1) % 3) + 1]])

EdgeStarts == (0..0) \X (0..1)
EdgeEnds == (0..3) \X (0..2)

InitEdge ==
    /\ SimplifyIdle
    /\ env \in { e \in Envs : get_simd_capabilities(e).avx512_available }
    /\ \E a1 \in EdgeStarts, a2 \in EdgeEnds :
           edge_a = <<a1[1], a1[2], a2[1], a2[2]>>
    /\ \E p \in EdgePoints \X EdgePoints \X EdgePoints,
           n \in (BatchWidth + 1)..(BatchWidth + 1 + MaxStart) :
           /\ b_vertices = EdgeVertices(p, n)
           /\ start_idx \in 0..(n - (BatchWidth + 1))
    /\ simd_results = [i \in 0..(BatchWidth - 1) |-> NoIntersection]
    /\ scalar_results = [i \in 0..(BatchWidth - 1) |-> NoIntersection]
    /\ edge_b = <<0, 0, 0, 0>>
    /\ scalar_result = NoIntersection
    /\ CacheIdle
    /\ PolygonIdle
    /\ pc = "ready"

\* "edge_intersect_avx512(ax1, ay1, ax2, ay2, b_vertices, start_idx, simd_results)"
RunEdgeAvx512 ==
    /\ pc = "ready"
    /\ simd_results' = edge_intersect_avx512(edge_a[1], edge_a[2], edge_a[3], edge_a[4],
                                             b_vertices, start_idx)
    /\ pc' = "simd"
    /\ UNCHANGED <<simplify_vars, cache_vars, polygon_vars, edge_a, b_vertices, start_idx,
                   scalar_results, edge_b, scalar_result>>

\* the loop "for (int i = 0; i < 8; ++i) scalar_result = edge_intersect_scalar(...)"
RunEdgeScalar ==
    /\ pc = "simd"
    /\ scalar_results' =
          [i \in 0..(BatchWidth - 1) |->
              edge_intersect_scalar(edge_a[1], edge_a[2], edge_a[3], edge_a[4],
                                    At(b_vertices, start_idx + i).x,
                                    At(b_vertices, start_idx + i).y,
                                    At(b_vertices, start_idx + i + 1).x,
                                    At(b_vertices, start_idx + i + 1).y)]
    /\ pc' = "compared"
    /\ UNCHANGED <<simplify_vars, cache_vars, polygon_vars, edge_a, b_vertices, start_idx,
                   simd_results, edge_b, scalar_result>>

NextEdge == RunEdgeAvx512 \/ RunEdgeScalar

SpecEdge == InitEdge /\ [][NextEdge]_vars

(************ SpecScalar: one scalar intersection test **********************)
\* end points of the two segments; cross products of 0, 2, 4 and more occur
ScalarPoints == {0, 1, 2, 4} \X {0, 2, 4}

InitScalar ==
    /\ SimplifyIdle
    /\ env \in { e \in Envs : e.arch = "x86_64" /\ e.avx512f_bit }
    /\ \E a1 \in ScalarPoints, a2 \in ScalarPoints :
           edge_a = <<a1[1], a1[2], a2[1], a2[2]>>
    /\ \E b1 \in ScalarPoints, b2 \in ScalarPoints :
           edge_b = <<b1[1], b1[2], b2[1], b2[2]>>
    /\ b_vertices = EmptyPolyline
    /\ start_idx = 0
    /\ simd_results = [i \in 0..(BatchWidth - 1) |-> NoIntersection]
    /\ scalar_results = [i \in 0..(BatchWidth - 1) |-> NoIntersection]
    /\ scalar_result = NoIntersection
    /\ CacheIdle
    /\ PolygonIdle
    /\ pc = "ready"

\* "auto result = edge_intersect_scalar(ax1, ay1, ax2, ay2, bx1, by1, bx2, by2)"
RunScalarTest ==
    /\ pc = "ready"
    /\ scalar_result' = edge_intersect_scalar(edge_a[1], edge_a[2], edge_a[3], edge_a[4],
                                              edge_b[1], edge_b[2], edge_b[3], edge_b[4])
    /\ pc' = "tested"
    /\ UNCHANGED <<simplify_vars, cache_vars, polygon_vars, edge_a, b_vertices, start_idx,
                   simd_results, scalar_results, edge_b>>

NextScalar == RunScalarTest

SpecScalar == InitScalar /\ [][NextScalar]_vars

(************************* claims on one call ******************************)
Succeeded == pc = "done" /\ error = NoError

Last(p) == At(p, size(p) - 1)

\* C3: for a polyline of at least 2 points and a tolerance > 0, the first
\* and the last point of the returned polyline are the first and the last
\* point of the input, coordinate for coordinate.
C3_EndpointsPreserved ==
    (Succeeded /\ tolerance > 0 /\ size(input) >= 2)
        => /\ size(result) >= 1
           /\ At(result, 0) = At(input, 0)
           /\ Last(result) = Last(input)

\* a call that dropped interior points and kept both (distinct) endpoints
C3_Witness ==
    /\ Succeeded /\ tolerance > 0
    /\ size(input) = 4 /\ size(result) = 2
    /\ At(input, 0) # Last(input)
    /\ At(input, 1) # Last(input) /\ At(input, 2) # Last(input)
    /\ Last(result) = Last(input)

\* C4: for a polyline of at least 2 points and a tolerance > 0 the returned
\* polyline has at least 2 points and at most as many points as the input.
C4_SizeBounds ==
    (Succeeded /\ tolerance > 0 /\ size(input) >= 2)
        => (2 <= size(result) /\ size(result) <= size(input))

\* both bounds are met: a call that kept only the endpoints and (below) one
\* that kept every point
C4_Witness ==
    /\ Succeeded /\ tolerance > 0
    /\ size(input) = 4 /\ size(result) = 2
    /\ frames # {}

\* whether out[k..] can be found, in order, in in[i..] (0-based positions)
RECURSIVE Embeds(_, _, _, _)
Embeds(out, in, k, i) ==
    IF k = size(out) THEN TRUE
    ELSE IF i = size(in) THEN FALSE
    ELSE IF At(out, k) = At(in, i) THEN Embeds(out, in, k + 1, i + 1)
    ELSE Embeds(out, in, k, i + 1)

\* C5: the returned polyline is a subsequence of the input: its points are
\* input points taken at strictly increasing indices, none reordered,
\* duplicated or altered (and its two coordinate arrays stay parallel).
C5_Subsequence ==
    (Succeeded /\ tolerance > 0)
        => /\ Len(result.x) = Len(result.y)
           /\ Embeds(result, input, 0, 0)

\* a call that kept one interior point and dropped another
C5_Witness ==
    /\ Succeeded /\ tolerance > 0
    /\ size(input) = 4 /\ size(result) = 3
    /\ At(result, 1) # At(result, 0) /\ At(result, 1) # At(result, 2)
    /\ At(result, 0) # At(result, 2)

\* C10: with a tolerance <= 0 the call fails with InvalidArgument and returns
\* no polyline, whatever the input polyline and the algorithm.
C10_NonPositiveToleranceRejected ==
    (pc = "done" /\ tolerance <= 0)
        => /\ error.type = "std::invalid_argument"
           /\ result = NoResult

(************************* claims on two calls *****************************)
\* C6: simplification is idempotent: simplifying the polyline returned by
\* simplify(L, t, SCALAR) again, with the same t and SCALAR, returns it
\* point for point.
C6_Idempotent ==
    (pc = "again" /\ algorithm = "SCALAR")
        => (error = NoError /\ result = prev.result /\ result = input)

\* the second call searched a range and kept its candidate; the first call
\* had dropped a point
C6_Witness ==
    /\ pc = "again" /\ algorithm = "SCALAR"
    /\ size(prev.input) = 4 /\ size(input) = 3 /\ size(result) = 3
    /\ \E f \in frames : f.split

\* C7: simplification is monotone in the tolerance: for t1 < t2 the polyline
\* returned for t2 has at most as many points as the one returned for t1.
C7_Monotone ==
    (pc = "looser" /\ prev.tolerance < tolerance)
        => (error = NoError /\ prev.error = NoError /\ size(result) <= size(prev.result))

\* both tolerances dropped a point, the larger one more points
C7_Witness ==
    /\ pc = "looser" /\ prev.tolerance < tolerance
    /\ size(input) = 4 /\ size(prev.result) = 3 /\ size(result) = 2

(******************* claims on the scalar and vector kernels ***************)
\* C1: for a polyline of more than 2 points and a tolerance > 0, the tested
\* kernel (AVX512, and AVX2 and NEON, which forward to the scalar path)
\* returns the same points as SCALAR; closed rings and ranges of 8 and more
\* candidates included.
C1_KernelsAgree ==
    (pc = "compared" /\ error = NoError /\ size(input) > 2)
        => (prev.error = NoError /\ result = prev.result)

\* the squared distance of the specification for candidate i of [start, end]:
\* perpendicular, or to the chord's start when the chord is degenerate
Interior(f) == (f.start + 1)..(f.end - 1)

Farthest(points, f) ==
    { i \in Interior(f) :
        \A j \in Interior(f) :
            ~FGt(chord_distance(points, f.start, f.end, j),
                 chord_distance(points, f.start, f.end, i)) }

Lowest(S) == CHOOSE i \in S : \A j \in S : i <= j

\* C8: when several candidates of a range share the maximum squared distance
\* and it exceeds the squared tolerance, the range is split at the lowest of
\* their indices, in the scalar and in the AVX-512 kernel.
C8_TieKeepsLowestIndex ==
    (pc \in {"done", "compared"} /\ error = NoError)
        => \A f \in frames :
              (/\ Cardinality(Farthest(input, f)) >= 2
               /\ FGt(chord_distance(input, f.start, f.end, Lowest(Farthest(input, f))),
                      square_tolerance(tolerance)))
                 => (f.split /\ f.max_idx = Lowest(Farthest(input, f)))

ChordMagSq(points, f) ==
    LET dx == At(points, f.end).x - At(points, f.start).x
        dy == At(points, f.end).y - At(points, f.start).y
    IN  dx * dx + dy * dy

EuclidSq(points, i, k) ==
    LET dx == At(points, i).x - At(points, k).x
        dy == At(points, i).y - At(points, k).y
    IN  Num(dx * dx + dy * dy)

\* C9: in every kernel, when the chord's squared length is below 1e-10 the
\* distance used for a candidate is its squared distance to the chord's start
\* point, and no division by the chord's squared length is performed.
C9_DegenerateChordFallback ==
    (pc \in {"done", "compared"} /\ error = NoError)
        => \A f \in frames :
              ChordMagSq(input, f) < EPS
                 => \A k \in 1..Len(f.evals) :
                       /\ f.evals[k].dist = EuclidSq(input, f.evals[k].i, f.start)
                       /\ ~f.evals[k].divided

(******************* claims on the intersection kernels ********************)
\* C2: for every edge A, vertex sequence B of at least start_idx + 9 vertices
\* and lane i in 0..7, edge_intersect_avx512 stores in results[i] the
\* intersects flag, and when it is true the t, u, x and y, that
\* edge_intersect_scalar returns for A and the edge
\* (B[start_idx + i], B[start_idx + i + 1]); also when the absolute value of
\* the denominator equals the parallel threshold.
C2_LanesMatchScalar ==
    pc = "compared"
        => \A i \in 0..(BatchWidth - 1) :
              /\ simd_results[i].intersects = scalar_results[i].intersects
              /\ scalar_results[i].intersects
                    => /\ simd_results[i].t = scalar_results[i].t
                       /\ simd_results[i].u = scalar_results[i].u
                       /\ simd_results[i].x = scalar_results[i].x
                       /\ simd_results[i].y = scalar_results[i].y

(************************* claims on the dispatch **************************)
\* C11: for a polyline of 0, 1 or 2 points and a tolerance > 0, simplify
\* does not fail and returns a polyline equal to the input.
C11_TrivialInputReturned ==
    (pc = "done" /\ size(input) <= 2 /\ tolerance > 0)
        => (error = NoError /\ result = input)

\* two points are returned although the requested kernel is not in the build
C11_Witness ==
    /\ pc = "done" /\ size(input) = 2 /\ tolerance > 0
    /\ algorithm = "NEON" /\ ~env.HAVE_NEON
    /\ result = input

\* the kernel of a tag, whether the build has it and whether the detector
\* reports it
KernelOf(alg) ==
    IF alg = "AVX512" THEN "avx512"
    ELSE IF alg = "AVX2" THEN "avx2"
    ELSE IF alg = "NEON" THEN "neon"
    ELSE "scalar"

Compiled(k, e) ==
    IF k = "avx512" THEN e.HAVE_AVX512
    ELSE IF k = "avx2" THEN e.HAVE_AVX2
    ELSE IF k = "neon" THEN e.HAVE_NEON
    ELSE TRUE

Available(k, e) ==
    IF k = "avx512" THEN detect_capabilities(e).avx512_available
    ELSE IF k = "avx2" THEN detect_capabilities(e).avx2_available
    ELSE IF k = "neon" THEN detect_capabilities(e).neon_available
    ELSE TRUE

Preference == <<"avx512", "avx2", "neon", "scalar">>

\* C12: with AUTO, simplify runs the first kernel in the order AVX-512,
\* AVX2, NEON that is compiled into the build and reported available, the
\* scalar kernel when none is, and never fails for want of hardware or
\* build support.
C12_AutoPicksWidest ==
    (pc = "done" /\ algorithm = "AUTO")
        => /\ error = NoError
           /\ size(input) > 2
                => \E i \in 1..Len(Preference) :
                      /\ kernel_run = Preference[i]
                      /\ Compiled(Preference[i], env) /\ Available(Preference[i], env)
                      /\ \A j \in 1..(i - 1) :
                            ~(Compiled(Preference[j], env) /\ Available(Preference[j], env))

\* AVX2 is run because AVX-512, although compiled in, is not reported
C12_Witness ==
    /\ pc = "done" /\ algorithm = "AUTO" /\ size(input) > 2
    /\ env.HAVE_AVX512 /\ ~Available("avx512", env)
    /\ kernel_run = "avx2"

VectorTags == {"AVX2", "AVX512", "NEON"}

\* C13: for every polyline, of 0, 1 or 2 points too, and every tolerance > 0,
\* simplify called with a vector tag that is not compiled into the build
\* fails with the error of a missing implementation and returns nothing.
C13_UncompiledTagFails ==
    (/\ pc = "done" /\ tolerance > 0
     /\ algorithm \in VectorTags /\ ~Compiled(KernelOf(algorithm), env))
        => /\ error = Exception("std::runtime_error",
                                "Requested SIMD implementation not compiled")
           /\ result = NoResult
           /\ kernel_run = "none"

\* the layer that rejected a call: the build or the CPU
RejectedByBuild(c) ==
    /\ c.algorithm \in VectorTags /\ ~Compiled(KernelOf(c.algorithm), env)
    /\ c.error # NoError

RejectedByCpu(c) ==
    /\ c.algorithm \in VectorTags /\ Compiled(KernelOf(c.algorithm), env)
    /\ ~Available(KernelOf(c.algorithm), env)
    /\ c.error # NoError

\* C14: the failure of a request for a kernel that is compiled in but not
\* supported by the CPU is of another error kind than the failure of a
\* request for a kernel that is not compiled in.
C14_RejectionsDiffer ==
    (pc = "second" /\ RejectedByCpu(prev) /\ RejectedByBuild(ThisCall))
        => error.type # prev.error.type

(********************* claims on the capability cache **********************)
\* C15: under any interleaving of concurrent callers of
\* get_simd_capabilities, detect_capabilities is executed at most once, no
\* caller is returned a partially initialised value, and all calls return
\* the same value.
C15_ProbedOnce ==
    /\ probes <= 1
    /\ returned \subseteq {detect_capabilities(env)}
    /\ guard = "done" => static_caps = detect_capabilities(env)

\* every thread is about to return the cached value after an earlier call
\* has returned it, on a machine where the value differs from the zeroed
\* storage
C15_Witness ==
    /\ probes = 1
    /\ detect_capabilities(env) # NoCapabilities
    /\ returned = {detect_capabilities(env)}
    /\ \A t \in Threads : callers[t] = "return"

(***************** claims on the scalar intersection test ******************)
\* the direction vectors of the two segments under test, the vector from A1
\* to B1, and the three cross products
DirA == <<edge_a[3] - edge_a[1], edge_a[4] - edge_a[2]>>
DirB == <<edge_b[3] - edge_b[1], edge_b[4] - edge_b[2]>>
FromAToB == <<edge_b[1] - edge_a[1], edge_b[2] - edge_a[2]>>

Denominator == DirA[1] * DirB[2] - DirA[2] * DirB[1]
NumeratorT == FromAToB[1] * DirB[2] - FromAToB[2] * DirB[1]
NumeratorU == FromAToB[1] * DirA[2] - FromAToB[2] * DirA[1]

\* 0 <= n / d <= 1 for d # 0, without a division
QuotientInUnit(n, d) ==
    IF d > 0 THEN 0 <= n /\ n <= d ELSE d <= n /\ n <= 0

SharedEndpoint ==
    \E i \in {1, 3}, j \in {1, 3} :
        edge_a[i] = edge_b[j] /\ edge_a[i + 1] = edge_b[j + 1]

\* C16: edge_intersect_scalar returns intersects = true exactly when the
\* cross product of the direction vectors has absolute value at least 1e-10
\* and 0 <= t <= 1 and 0 <= u <= 1; segments sharing an endpoint (and not
\* parallel) intersect, parallel and collinear ones do not.
C16_IntersectsIff ==
    pc = "tested"
        => /\ scalar_result.intersects
                <=> (/\ Abs(Denominator) >= EPS
                     /\ QuotientInUnit(NumeratorT, Denominator)
                     /\ QuotientInUnit(NumeratorU, Denominator))
           /\ (SharedEndpoint /\ Abs(Denominator) >= EPS) => scalar_result.intersects
           /\ Denominator = 0 => ~scalar_result.intersects

\* the end of A is the start of B: t = 1 and u = 0
C16_Witness ==
    /\ pc = "tested" /\ scalar_result.intersects
    /\ edge_a[3] = edge_b[1] /\ edge_a[4] = edge_b[2]
    /\ scalar_result.t = Num(1) /\ scalar_result.u = Num(0)

\* C17: when edge_intersect_scalar returns intersects = true the point is
\* A1 + t * (A2 - A1) and equals B1 + u * (B2 - B1); the segments
\* (0,0)-(10,10) and (0,10)-(10,0), here (0,0)-(4,4) and (0,4)-(4,0), give
\* intersects = true, t = u = 1/2 and the point (5,5), here (2,2).
C17_PointOnBothSegments ==
    pc = "tested"
        => /\ scalar_result.intersects
                => /\ scalar_result.x = FMulAdd(scalar_result.t, DirA[1], edge_a[1])
                   /\ scalar_result.y = FMulAdd(scalar_result.t, DirA[2], edge_a[2])
                   /\ scalar_result.x = FMulAdd(scalar_result.u, DirB[1], edge_b[1])
                   /\ scalar_result.y = FMulAdd(scalar_result.u, DirB[2], edge_b[2])
           /\ (edge_a = <<0, 0, 4, 4>> /\ edge_b = <<0, 4, 4, 0>>)
                => scalar_result = EdgeIntersection(TRUE, Rat(1, 2), Rat(1, 2), Num(2), Num(2))

\* an intersection whose two parameters differ
C17_Witness ==
    /\ pc = "tested" /\ scalar_result.intersects
    /\ scalar_result.t # scalar_result.u
    /\ scalar_result.t.d > 1

(******************* claims on the distance to the result ******************)
\* the input indices the call kept: both ends and the split point of every
\* range it split
KeptIndices ==
    {0, size(input) - 1} \cup { f.max_idx : f \in { g \in frames : g.split } }

KeptBefore(i) == CHOOSE a \in KeptIndices : a < i /\ \A c \in KeptIndices : c < i => c <= a
KeptAfter(i) == CHOOSE b \in KeptIndices : b > i /\ \A c \in KeptIndices : c > i => b <= c

\* squared Euclidean distance of the point p from the segment a-b
SegmentDistanceSq(p, a, b) ==
    LET dx == b.x - a.x
        dy == b.y - a.y
        mag_sq == dx * dx + dy * dy
        dot == (p.x - a.x) * dx + (p.y - a.y) * dy
        cr == (p.x - a.x) * dy - (p.y - a.y) * dx
    IN  IF mag_sq = 0 \/ dot <= 0
        THEN Num((p.x - a.x) * (p.x - a.x) + (p.y - a.y) * (p.y - a.y))
        ELSE IF dot >= mag_sq
        THEN Num((p.x - b.x) * (p.x - b.x) + (p.y - b.y) * (p.y - b.y))
        ELSE Rat(cr * cr, mag_sq)

\* C18: every point of L that simplify(L, t) removes lies at Euclidean
\* distance at most t from the segment of the result that joins the kept
\* points immediately before and after it.
C18_RemovedWithinTolerance ==
    (pc = "done" /\ error = NoError /\ tolerance > 0 /\ size(input) > 2)
        => \A i \in (0..(size(input) - 1)) \ KeptIndices :
              ~FGt(SegmentDistanceSq(At(input, i), At(input, KeptBefore(i)),
                                     At(input, KeptAfter(i))),
                   square_tolerance(tolerance))

(******************************* polygon ***********************************)
\* polygon.cpp: Polygon::is_closed
is_closed(v) ==
    IF size(v) < 2 THEN FALSE
    ELSE LET last == size(v) - 1
             dx == At(v, 0).x - At(v, last).x
             dy == At(v, 0).y - At(v, last).y
         IN  dx * dx + dy * dy < EPS

\* the shoelace loop without the edge from the last vertex to the first
area_limit_never_wraps(v) == size(v) - 1

\* the number of edges the shoelace loop visits
area_limit(v) == IF is_closed(v) THEN size(v) - 1 ELSE size(v)

\* the loop of signed_area from index i on, with the sum so far
RECURSIVE signed_area_loop(_, _, _, _)
signed_area_loop(v, i, limit, area) ==
    IF i >= limit THEN area
    ELSE LET j == (i + 1) % size(v)
         IN  signed_area_loop(v, i + 1, limit,
                 (area + At(v, i).x * At(v, j).y) - At(v, j).x * At(v, i).y)

\* polygon.cpp: Polygon::signed_area
signed_area(v) ==
    IF size(v) < 3 THEN Num(0)
    ELSE Rat(signed_area_loop(v, 0, area_limit(v), 0), 2)

\* polygon.cpp: Polygon::area
area(v) == LET a == signed_area(v) IN Rat(Abs(a.n), a.d)

\* the ray-casting loop without the edge from the last vertex to the first
ray_limit_never_wraps(v) == size(v) - 1

\* the number of edges the ray-casting loop visits
ray_limit(v) == IF is_closed(v) THEN size(v) - 1 ELSE size(v)

\* variant: a vertex at the height of the ray is taken as above it at the
\* first end of the edge
ray_straddles_or_level(yi, yj, py) == (yi >= py) # (yj > py)

\* "(yi > py) != (yj > py)", the left operand of the && in the edge test:
\* the right operand, with its division, is evaluated only when it is true
ray_straddles(yi, yj, py) == (yi > py) # (yj > py)

\* the edge test with a vertex at the height of the ray taken as above it
\* at one end of the edge only
ray_crosses_lopsided(xi, yi, xj, yj, px, py) ==
    /\ (yi >= py) # (yj > py)
    /\ yj # yi
    /\ FGt(FMulAdd(FDiv((xj - xi) * (py - yi), yj - yi), 1, xi), Num(px))

\* the test of one edge (xi, yi)-(xj, yj) against the ray from (px, py)
ray_crosses(xi, yi, xj, yj, px, py) ==
    /\ ray_straddles(yi, yj, py)
    /\ FGt(FMulAdd(FDiv((xj - xi) * (py - yi), yj - yi), 1, xi), Num(px))

\* the loop of contains from index i on, with the parity so far
RECURSIVE contains_loop(_, _, _, _, _, _)
contains_loop(v, px, py, i, limit, inside) ==
    IF i >= limit THEN inside
    ELSE LET j == (i + 1) % size(v)
         IN  contains_loop(v, px, py, i + 1, limit,
                 IF ray_crosses(At(v, i).x, At(v, i).y, At(v, j).x, At(v, j).y,
                                px, py)
                 THEN ~inside ELSE inside)

\* polygon.cpp: Polygon::contains
contains(v, px, py) ==
    IF size(v) < 3 THEN FALSE
    ELSE contains_loop(v, px, py, 0, ray_limit(v), FALSE)

RECURSIVE Reversed(_)
Reversed(s) == IF s = <<>> THEN <<>> ELSE Append(Reversed(Tail(s)), Head(s))

\* a reversal of the x coordinates only
reverse_x_only(v) == [x |-> Reversed(v.x), y |-> v.y]

\* polygon.cpp: Polygon::reverse
reverse(v) == [x |-> Reversed(v.x), y |-> Reversed(v.y)]

\* the vertices of the polygons: the corners of the square of side 2 and
\* the midpoint of one side, which is within the closure epsilon of its
\* two neighbours
PolygonPoints == {<<0, 0>>, <<2, 0>>, <<2, 2>>, <<0, 2>>, <<2, 1>>}

\* what a read of x[0], y[0] of an empty vector can give
Garbage == {0, 2}

InitPolygon ==
    /\ SimplifyIdle
    /\ env \in { e \in Envs : e.arch = "x86_64" /\ e.avx512f_bit }
    /\ EdgeIdle
    /\ CacheIdle
    /\ pc = "ready"
    /\ vertices \in Polylines(PolygonPoints, 0..MaxVertices)
    /\ before = vertices
    /\ op = "none"
    /\ oob = FALSE

\* polygon.cpp: Polygon::close. On an empty polygon is_closed() is false and
\* x[0], y[0] are read out of bounds: the call either appends whatever the
\* read gives or faults.
Close ==
    /\ op # "fault"
    /\ before' = vertices
    /\ IF is_closed(vertices)
       THEN /\ vertices' = vertices
            /\ op' = "close"
            /\ oob' = oob
       ELSE IF size(vertices) > 0
       THEN /\ vertices' = push_back(vertices, At(vertices, 0).x, At(vertices, 0).y)
            /\ op' = "close"
            /\ oob' = oob
       ELSE /\ oob' = TRUE
            /\ \/ /\ \E gx \in Garbage, gy \in Garbage :
                        vertices' = push_back(vertices, gx, gy)
                  /\ op' = "close"
               \/ /\ vertices' = vertices
                  /\ op' = "fault"
    /\ UNCHANGED <<simplify_vars, edge_vars, cache_vars, pc>>

Reverse ==
    /\ op # "fault"
    /\ before' = vertices
    /\ vertices' = reverse(vertices)
    /\ op' = "reverse"
    /\ oob' = oob
    /\ UNCHANGED <<simplify_vars, edge_vars, cache_vars, pc>>

NextPolygon == Close \/ Reverse

SpecPolygon == InitPolygon /\ [][NextPolygon]_vars

(************************* C19: signed area ********************************)
\* the edges of the ring of v as pairs of 0-based indices: the consecutive
\* pairs, and the pair from the last vertex to the first unless v is closed
RingEdges(v) ==
    { <<i, i + 1>> : i \in 0..(size(v) - 2) }
        \cup (IF is_closed(v) THEN {} ELSE {<<size(v) - 1, 0>>})

RECURSIVE Shoelace(_, _)
Shoelace(v, edges) ==
    IF edges = {} THEN 0
    ELSE LET e == CHOOSE f \in edges : TRUE
         IN  (At(v, e[1]).x * At(v, e[2]).y - At(v, e[2]).x * At(v, e[1]).y)
                 + Shoelace(v, edges \ {e})

SquareCcw == <<<<0, 0>>, <<2, 0>>, <<2, 2>>, <<0, 2>>>>
SquareCw == <<<<0, 0>>, <<0, 2>>, <<2, 2>>, <<2, 0>>>>
Ring(corners) == PolylineSoA(Append(corners, corners[1]))

\* C19: with at least 3 vertices signed_area is half the shoelace sum over
\* the edges of the ring, each taken once, the edge from the last vertex to
\* the first only when the polygon is not closed; close() does not change
\* it; the counter-clockwise square has the positive area of the square and
\* the clockwise one the negative; with fewer than 3 vertices it is 0.
C19_SignedAreaIsShoelace ==
    /\ size(vertices) >= 3
          => signed_area(vertices) = Rat(Shoelace(vertices, RingEdges(vertices)), 2)
    /\ (op = "close" /\ size(before) >= 3)
          => signed_area(vertices) = signed_area(before)
    /\ vertices \in {Ring(SquareCcw), PolylineSoA(SquareCcw)}
          => signed_area(vertices) = Num(4)
    /\ vertices \in {Ring(SquareCw), PolylineSoA(SquareCw)}
          => signed_area(vertices) = Num(-4)
    /\ size(vertices) < 3 => signed_area(vertices) = Num(0)

\* close() has appended the first corner to the open counter-clockwise
\* square, and the area is that of the square
C19_Witness ==
    /\ op = "close"
    /\ before = PolylineSoA(SquareCcw)
    /\ vertices = Ring(SquareCcw)
    /\ signed_area(vertices) = Num(4)
    /\ signed_area(before) = Num(4)

(************************* C20: point in polygon ***************************)
\* the query points: the grid of the vertices and one step around it
Queries == ((-1)..3) \X ((-1)..3)

\* C20: contains walks the edges signed_area walks; with at least 3
\* vertices it answers the same for every query point before and after
\* close(), and with fewer than 3 vertices it answers false.
C20_ContainsClosureAware ==
    /\ size(vertices) >= 3 => ray_limit(vertices) = area_limit(vertices)
    /\ (op = "close" /\ size(before) >= 3)
          => \A q \in Queries :
                contains(vertices, q[1], q[2]) = contains(before, q[1], q[2])
    /\ size(vertices) < 3
          => \A q \in Queries : ~contains(vertices, q[1], q[2])

\* close() has appended a vertex to an open polygon that contains a query
\* point
C20_Witness ==
    /\ op = "close"
    /\ size(before) >= 3
    /\ size(vertices) = size(before) + 1
    /\ \E q \in Queries : contains(vertices, q[1], q[2]) /\ contains(before, q[1], q[2])

(********************* C21: containment in simple polygons *****************)
\* twice the signed area of the triangle a, b, c
Orient(a, b, c) == (b[1] - a[1]) * (c[2] - a[2]) - (b[2] - a[2]) * (c[1] - a[1])

Sign(n) == IF n > 0 THEN 1 ELSE IF n < 0 THEN -1 ELSE 0

\* the point p lies on the closed segment a-b
OnSegment(p, a, b) ==
    /\ Orient(a, b, p) = 0
    /\ (p[1] - a[1]) * (p[1] - b[1]) <= 0
    /\ (p[2] - a[2]) * (p[2] - b[2]) <= 0

\* the closed segments a-b and c-d have a point in common
SegmentsMeet(a, b, c, d) ==
    \/ /\ Sign(Orient(a, b, c)) * Sign(Orient(a, b, d)) < 0
       /\ Sign(Orient(c, d, a)) * Sign(Orient(c, d, b)) < 0
    \/ OnSegment(c, a, b) \/ OnSegment(d, a, b)
    \/ OnSegment(a, c, d) \/ OnSegment(b, c, d)

\* the corners c (a sequence of points, without the closing duplicate) make
\* a simple polygon: distinct corners, neighbouring edges that share their
\* common corner only, and other edges that do not meet
SimpleRing(c) ==
    LET n == Len(c)
        nx(i) == (i % n) + 1
    IN  /\ n >= 3
        /\ \A i, j \in 1..n : i # j => c[i] # c[j]
        /\ \A i \in 1..n :
              \/ Orient(c[i], c[nx(i)], c[nx(nx(i))]) # 0
              \/   (c[i][1] - c[nx(i)][1]) * (c[nx(nx(i))][1] - c[nx(i)][1])
                 + (c[i][2] - c[nx(i)][2]) * (c[nx(nx(i))][2] - c[nx(i)][2]) < 0
        /\ \A i, j \in 1..n :
              (i < j /\ nx(i) # j /\ nx(j) # i)
                  => ~SegmentsMeet(c[i], c[nx(i)], c[j], c[nx(j)])

\* the corners of the polygon v: its vertices without the closing duplicate
Corners(v) ==
    LET n == IF is_closed(v) THEN size(v) - 1 ELSE size(v)
    IN  [i \in 1..n |-> <<At(v, i - 1).x, At(v, i - 1).y>>]

OnBoundary(c, q) == \E i \in 1..Len(c) : OnSegment(q, c[i], c[(i % Len(c)) + 1])

\* a point that lies far to the right of q and one step above it: the
\* segment from q to it passes through no point of the integer grid
FarPoint(q) == <<q[1] + 100, q[2] + 1>>

\* q is not on the boundary, and the segment from q to the far point
\* crosses the boundary an odd number of times
StrictlyInside(c, q) ==
    /\ ~OnBoundary(c, q)
    /\ Cardinality({ i \in 1..Len(c) :
            SegmentsMeet(q, FarPoint(q), c[i], c[(i % Len(c)) + 1]) }) % 2 = 1

StrictlyOutside(c, q) ==
    /\ ~OnBoundary(c, q)
    /\ Cardinality({ i \in 1..Len(c) :
            SegmentsMeet(q, FarPoint(q), c[i], c[(i % Len(c)) + 1]) }) % 2 = 0

\* the corners of the polygons: the square of side 4, the midpoint of its
\* upper side and its centre
ContainsPoints == {<<0, 0>>, <<4, 0>>, <<4, 4>>, <<0, 4>>, <<2, 4>>, <<2, 2>>}

TriangleCcw == <<<<0, 0>>, <<4, 0>>, <<2, 4>>>>
BigSquareCcw == <<<<0, 0>>, <<4, 0>>, <<4, 4>>, <<0, 4>>>>

\* the simple polygons over these corners, each open and closed
SimplePolygons ==
    LET rings == { c \in UNION { [1..n -> ContainsPoints] : n \in 3..5 } :
                      SimpleRing(c) }
    IN  { PolylineSoA(c) : c \in rings }
            \cup { PolylineSoA(Append(c, c[1])) : c \in rings }

InitContains ==
    /\ SimplifyIdle
    /\ env \in { e \in Envs : e.arch = "x86_64" /\ e.avx512f_bit }
    /\ EdgeIdle
    /\ CacheIdle
    /\ pc = "ready"
    /\ vertices \in SimplePolygons
    /\ before = vertices
    /\ op = "none"
    /\ oob = FALSE

NextContains == Close \/ Reverse

SpecContains == InitContains /\ [][NextContains]_vars

\* the query points: the grid of the corners and one step around it
ContainsQueries == ((-1)..5) \X ((-1)..5)

ClosedAsSpecified ==
    op \in {"close", "fault"}
        => IF is_closed(before)
           THEN op = "close" /\ vertices = before
           ELSE /\ op = "close"
                /\ size(before) > 0
                /\ vertices = push_back(before, At(before, 0).x, At(before, 0).y)
                /\ is_closed(vertices)

\* a call of close() right after a call of close() changes nothing
SecondCloseChangesNothing ==
    (op = "close" /\ op' \in {"close", "fault"}) => (op' = "close" /\ vertices' = vertices)

\* C22: close() appends exactly one vertex equal to the first to a polygon
\* that is not closed, after which is_closed() is true, changes nothing on a
\* closed polygon, and called twice leaves the polygon as called once.
C22_CloseIdempotent == []ClosedAsSpecified /\ [][SecondCloseChangesNothing]_vars

(********************* C30: close reads inside the polygon *****************)
\* C30: close() reads no vertex at an index that is not below size(): it
\* reads vertex 0 only of a polygon with at least one vertex, and closing
\* the empty polygon leaves it empty.
C30_CloseReadsInBounds ==
    /\ ~oob
    /\ (op \in {"close", "fault"} /\ size(before) = 0)
          => (op = "close" /\ size(vertices) = 0)

reserve_vector(s, n) == s

\* geom_simd.h: PolylineSoA::reserve
reserve(p, n) == [x |-> reserve_vector(p.x, n), y |-> reserve_vector(p.y, n)]

\* geom_simd.h: PolylineSoA::clear
clear(p) == [x |-> <<>>, y |-> <<>>]

\* the points pushed: two ends of a chord and a point off it
PolylinePoints == {<<0, 0>>, <<1, 1>>, <<2, 0>>}

\* a default-constructed polyline or one constructed from a list of points
InitPolyline ==
    /\ SimplifyIdle
    /\ env \in { e \in Envs : e.arch = "x86_64" /\ e.avx512f_bit }
    /\ EdgeIdle
    /\ CacheIdle
    /\ pc = "ready"
    /\ vertices \in Polylines(PolylinePoints, 0..2)
    /\ before = vertices
    /\ op = "none"
    /\ oob = FALSE

PushBack(px, py) ==
    /\ pc = "ready"
    /\ size(vertices) < MaxVertices
    /\ before' = vertices
    /\ vertices' = push_back(vertices, px, py)
    /\ op' = "push_back"
    /\ UNCHANGED <<oob, simplify_vars, edge_vars, cache_vars, pc>>

Reserve(n) ==
    /\ pc = "ready"
    /\ before' = vertices
    /\ vertices' = reserve(vertices, n)
    /\ op' = "reserve"
    /\ UNCHANGED <<oob, simplify_vars, edge_vars, cache_vars, pc>>

Clear ==
    /\ pc = "ready"
    /\ before' = vertices
    /\ vertices' = clear(vertices)
    /\ op' = "clear"
    /\ UNCHANGED <<oob, simplify_vars, edge_vars, cache_vars, pc>>

\* Polygon::close on a polygon with at least one vertex
CloseNonEmpty ==
    /\ pc = "ready"
    /\ size(vertices) > 0
    /\ Close

ReversePolyline ==
    /\ pc = "ready"
    /\ Reverse

\* simplify on the polyline built so far
SimplifyVertices(tol, alg) ==
    /\ pc = "ready"
    /\ Call(vertices, tol, alg)
    /\ pc' = "done"
    /\ UNCHANGED <<env, prev, edge_vars, cache_vars, polygon_vars>>

NextPolyline ==
    \/ \E p \in PolylinePoints : PushBack(p[1], p[2])
    \/ \E n \in {0, MaxVertices} : Reserve(n)
    \/ Clear
    \/ CloseNonEmpty
    \/ ReversePolyline
    \/ \E tol \in {1, MaxTolNum}, alg \in Algorithms : SimplifyVertices(tol, alg)

SpecPolyline == InitPolyline /\ [][NextPolyline]_vars

ChordDistanceSq(L, i, a, b) ==
    perpendicular_distance(At(L, i).x, At(L, i).y, At(L, a).x, At(L, a).y,
                           At(L, b).x, At(L, b).y)

\* C25: after simplify(L, t, SCALAR) every dropped point lies, by the
\* squared perpendicular distance (the squared distance from L[a] for a
\* degenerate chord), at most t from the chord of the kept points a and b
\* next to it; the test is strict, a range whose farthest point is at the
\* tolerance exactly is not split.
C25_DroppedWithinChordTolerance ==
    (pc = "done" /\ error = NoError /\ algorithm = "SCALAR" /\ size(input) > 2)
        => /\ \A i \in (0..(size(input) - 1)) \ KeptIndices :
                 ~FGt(ChordDistanceSq(input, i, KeptBefore(i), KeptAfter(i)),
                      square_tolerance(tolerance))
           /\ \A f \in frames :
                 f.max_dist_sq = square_tolerance(tolerance)
                     => /\ ~f.split
                        /\ \A i \in (f.start + 1)..(f.end - 1) : i \notin KeptIndices

\* a scalar call has dropped a point whose distance from the chord of its
\* kept neighbours is the tolerance exactly, and has kept another point
C25_Witness ==
    /\ pc = "done"
    /\ error = NoError
    /\ algorithm = "SCALAR"
    /\ size(result) > 2
    /\ \E i \in (0..(size(input) - 1)) \ KeptIndices :
          /\ FGt(ChordDistanceSq(input, i, KeptBefore(i), KeptAfter(i)), Num(0))
          /\ ChordDistanceSq(input, i, KeptBefore(i), KeptAfter(i))
                = square_tolerance(tolerance)

(************ SpecRecurse: the recursion of a kernel, call by call *********)
\* the points of the short polylines: a chord, a point on it and one off it
RecursePoints == {<<0, 0>>, <<1, 0>>, <<2, 0>>, <<1, 1>>}

\* short polylines of every shape, and the shortest of the long ones, for
\* which the hot loop of the AVX-512 kernel runs
RecurseInputs ==
    Polylines(RecursePoints, 3..MaxLen)
        \cup { p \in WidePolylines : size(p) = BatchWidth + 2 }

\* a pending call douglas_peucker_recursive / rdpr_avx512 (points, start, end)
Range(start, end) == [start |-> start, end |-> end]

\* the search loop of the kernel that runs for the algorithm tag
kernel_scan(alg, points, start, end) ==
    IF alg = "AVX512" THEN avx512_scan(points, start, end)
    ELSE scalar_loop(points, start, end, start + 1, scan_init(start))

\* before the call: the machine is chosen, nothing is under way
InitRecurse ==
    /\ SimplifyIdle
    /\ env \in { e \in Envs : e.arch = "x86_64" /\ e.avx512f_bit }
    /\ pc = "ready"
    /\ EdgeIdle
    /\ CacheIdle
    /\ PolygonIdle

\* simplify_scalar / simplify_avx512 on more than 2 points, up to the first
\* call of the recursion
Start(points, tol, alg) ==
    /\ pc = "ready"
    /\ input' = points
    /\ tolerance' = tol
    /\ algorithm' = alg
    /\ kernel_run' = KernelOf(alg)
    /\ stack' = <<Range(0, size(points) - 1)>>
    /\ keep_marks' = keep_init(size(points))
    /\ pc' = "running"
    /\ UNCHANGED <<env, result, error, frames, prev, edge_vars, cache_vars,
                   polygon_vars>>

\* the call at the top of the stack is running and the stack fits
Running ==
    /\ pc = "running"
    /\ stack # <<>>
    /\ Len(stack) <= MaxDepth

\* "if (end <= start + 1) return;"
ReturnTrivial ==
    /\ Running
    /\ range_is_trivial(Head(stack).start, Head(stack).end)
    /\ stack' = Tail(stack)
    /\ UNCHANGED <<input, tolerance, algorithm, env, result, error, frames,
                   kernel_run, prev, keep_marks, edge_vars, cache_vars,
                   polygon_vars, pc>>

\* the end of a call whose search gave scan: the farthest point is kept and
\* the two recursive calls are pending, the left one first
split_range(top, scan) ==
    /\ keep_marks' = [keep_marks EXCEPT ![scan.max_idx] = TRUE]
    /\ frames' = frames \cup {Frame(top.start, top.end, scan, TRUE)}
    /\ stack' = <<Range(top.start, scan.max_idx), Range(scan.max_idx, top.end)>>
                    \o Tail(stack)

Split ==
    /\ Running
    /\ ~range_is_trivial(Head(stack).start, Head(stack).end)
    /\ exceeds_tolerance(
           kernel_scan(algorithm, input, Head(stack).start, Head(stack).end).max_dist_sq,
           square_tolerance(tolerance))
    /\ split_range(Head(stack),
                   kernel_scan(algorithm, input, Head(stack).start, Head(stack).end))
    /\ UNCHANGED <<input, tolerance, algorithm, env, result, error,
                   kernel_run, prev, edge_vars, cache_vars, polygon_vars, pc>>

\* the end of a call whose farthest point is within the tolerance
Discard ==
    /\ Running
    /\ ~range_is_trivial(Head(stack).start, Head(stack).end)
    /\ ~exceeds_tolerance(
           kernel_scan(algorithm, input, Head(stack).start, Head(stack).end).max_dist_sq,
           square_tolerance(tolerance))
    /\ frames' = frames \cup
           {Frame(Head(stack).start, Head(stack).end,
                  kernel_scan(algorithm, input, Head(stack).start, Head(stack).end),
                  FALSE)}
    /\ stack' = Tail(stack)
    /\ UNCHANGED <<input, tolerance, algorithm, env, result, error,
                   kernel_run, prev, keep_marks, edge_vars, cache_vars,
                   polygon_vars, pc>>

\* the first call has returned: the result is built from the marks
Finish ==
    /\ pc = "running"
    /\ stack = <<>>
    /\ result' = build_result(input, keep_marks, 0, EmptyPolyline)
    /\ pc' = "done"
    /\ UNCHANGED <<input, tolerance, algorithm, env, error, frames, kernel_run,
                   prev, stack, keep_marks, edge_vars, cache_vars, polygon_vars>>

NextRecurse ==
    \/ \E points \in RecurseInputs, tol \in 1..MaxTolNum, alg \in {"SCALAR", "AVX512"} :
           Start(points, tol, alg)
    \/ ReturnTrivial
    \/ Split
    \/ Discard
    \/ Finish

SpecRecurse == InitRecurse /\ [][NextRecurse]_vars


(************************* C26: the recursion ends *************************)
SplitFrames == { f \in frames : f.split }

\* every split so far was at an index strictly inside its range, no index
\* was the split index of two ranges, and there were at most n - 2 splits
SplitsInside ==
    pc \in {"running", "done"}
        => /\ \A f \in SplitFrames :
                 /\ f.start < f.max_idx
                 /\ f.max_idx < f.end
                 /\ f.max_idx - f.start < f.end - f.start
                 /\ f.end - f.max_idx < f.end - f.start
           /\ \A f, g \in SplitFrames : f.max_idx = g.max_idx => f = g
           /\ Cardinality(SplitFrames) <= size(input) - 2

\* a call that leaves two calls pending has marked an index that was not
\* marked before
SplitMarksNewIndex ==
    (pc = "running" /\ Len(stack') > Len(stack))
        => \E i \in DOMAIN keep_marks : ~keep_marks[i] /\ keep_marks'[i]

\* an upper bound of the calls a pending range of the given length stands for
CallsFor(length) == IF length >= 1 THEN 2 * length - 1 ELSE 0

RECURSIVE PendingCalls(_)
PendingCalls(ranges) ==
    IF ranges = <<>> THEN 0
    ELSE CallsFor(Head(ranges).end - Head(ranges).start) + PendingCalls(Tail(ranges))

\* what the call still has to do: the calls its pending ranges stand for,
\* and the construction of the result
Remaining(ranges, position) ==
    PendingCalls(ranges) + (IF position = "running" THEN 1 ELSE 0)

\* every step of the recursion leaves less to do
StepDecreases ==
    pc = "running" => Remaining(stack', pc') < Remaining(stack, pc)

\* the recursion is never deeper than the polyline is long
DepthBounded ==
    pc = "running" => (Len(stack) < size(input) /\ Len(stack) < MaxDepth)

\* C26: for every polyline and tolerance > 0 the recursion ends: every call
\* leaves less to do than there was, because a range is split at an index
\* strictly between its ends, never at start, so that the two sub-ranges
\* are shorter; each index is marked at most once and there are at most
\* n - 2 splits.
C26_RecursionTerminates ==
    /\ []SplitsInside
    /\ []DepthBounded
    /\ [][SplitMarksNewIndex]_vars
    /\ [][StepDecreases]_vars

\* the AVX-512 recursion has ended after it split a range that its hot loop
\* searched
C26_Witness ==
    /\ pc = "done"
    /\ stack = <<>>
    /\ algorithm = "AVX512"
    /\ \E f \in SplitFrames :
          /\ f.end - f.start > BatchWidth
          /\ f.start < f.max_idx
          /\ f.max_idx < f.end

(******************* C27: the indices the AVX-512 kernel reads *************)
\* the number of interior indices of a visited range
InteriorCount(f) == f.end - f.start - 1

\* the number of indices the hot loop takes: whole blocks of 8
VectorCount(f) == BatchWidth * (InteriorCount(f) \div BatchWidth)

\* C27: in the AVX-512 kernel every interior index of a visited range is
\* evaluated exactly once, in ascending order: the hot loop takes blocks of
\* 8 consecutive indices from start + 1 on, all of them interior, and the
\* fewer than 8 indices left are evaluated after it by the scalar code with
\* the same chord.
C27_InteriorVisitedOnce ==
    (pc = "compared" /\ kernel_run = "avx512" /\ error = NoError)
        => \A f \in frames :
              /\ f.end > f.start + 1
              /\ Len(f.evals) = InteriorCount(f)
              /\ InteriorCount(f) - VectorCount(f) < BatchWidth
              /\ \A k \in 1..Len(f.evals) :
                    /\ f.evals[k].i = f.start + k
                    /\ f.evals[k].i < f.end
                    /\ f.evals[k].i < size(input) - 1
                    /\ f.evals[k].unit = (IF k <= VectorCount(f) THEN "vector" ELSE "scalar")
                    /\ f.evals[k].unit = "scalar"
                          => f.evals[k].dist
                                = chord_distance(input, f.start, f.end, f.evals[k].i)

\* the AVX-512 kernel has searched a range with a block of 8 and a remainder
C27_Witness ==
    /\ pc = "compared"
    /\ kernel_run = "avx512"
    /\ error = NoError
    /\ \E f \in frames :
          /\ VectorCount(f) >= BatchWidth
          /\ InteriorCount(f) > VectorCount(f)
          /\ f.evals[1].unit = "vector"
          /\ f.evals[Len(f.evals)].unit = "scalar"

(******************** C28: the two segments can be exchanged ***************)
\* the call with the two segments exchanged
Exchanged ==
    edge_intersect_scalar(edge_b[1], edge_b[2], edge_b[3], edge_b[4],
                          edge_a[1], edge_a[2], edge_a[3], edge_a[4])

SameUpToExchange(r, s) ==
    /\ r.intersects = s.intersects
    /\ r.intersects => (r.t = s.u /\ r.u = s.t /\ r.x = s.x /\ r.y = s.y)

\* C28: edge_intersect_scalar(A, B) and edge_intersect_scalar(B, A) return
\* the same intersects flag, and when it is true the t of one is the u of
\* the other and the intersection point is the same.
C28_SymmetricInSegments ==
    pc = "tested" => SameUpToExchange(scalar_result, Exchanged)

\* two different segments intersect at parameters that differ, so that the
\* exchange of t and u shows
C28_Witness ==
    /\ pc = "tested"
    /\ scalar_result.intersects
    /\ scalar_result.t # scalar_result.u
    /\ Exchanged.intersects
    /\ Exchanged.t = scalar_result.u
    /\ Exchanged.t # Exchanged.u

(******************** C29: contains does not divide by zero ****************)
\* the heights of the two ends of the edge that the loop of contains takes
\* at index i
EdgeHeights(v, i) == <<At(v, i).y, At(v, (i + 1) % size(v)).y>>

EdgeToggles(v, i, q) ==
    ray_crosses(At(v, i).x, At(v, i).y,
                At(v, (i + 1) % size(v)).x, At(v, (i + 1) % size(v)).y, q[1], q[2])

\* the indices of the loop of contains
VisitedEdges(v) == IF size(v) < 3 THEN {} ELSE 0..(ray_limit(v) - 1)

\* C29: contains evaluates the quotient by (yj - yi) only for edges with
\* (yi > py) != (yj > py), for which yi and yj differ; an edge with
\* yi = yj does not toggle the inside flag.
C29_NoDivisionByZero ==
    \A q \in Queries : \A i \in VisitedEdges(vertices) :
        /\ ray_straddles(EdgeHeights(vertices, i)[1], EdgeHeights(vertices, i)[2], q[2])
              => EdgeHeights(vertices, i)[2] - EdgeHeights(vertices, i)[1] # 0
        /\ EdgeHeights(vertices, i)[1] = EdgeHeights(vertices, i)[2]
              => ~EdgeToggles(vertices, i, q)

\* a polygon with an edge that lies on the ray of a query point, and an
\* edge the ray crosses, for which the quotient is evaluated
C29_Witness ==
    /\ op = "reverse"
    /\ \E q \in Queries :
          /\ \E i \in VisitedEdges(vertices) :
                /\ EdgeHeights(vertices, i)[1] = q[2]
                /\ EdgeHeights(vertices, i)[2] = q[2]
                /\ ~EdgeToggles(vertices, i, q)
          /\ \E i \in VisitedEdges(vertices) : EdgeToggles(vertices, i, q)
          /\ contains(vertices, q[1], q[2])

====
